---- MODULE Spec2Model ----
(***************************************************************************)
(* Two-tier dispatch engine of the delivery simulation.                    *)
(*                                                                         *)
(*   hybrid_solver.py / dynamic_solver_v2.py : the cost model, the greedy  *)
(*       insertion, the tabu refinement, the Layer 1 acceptance policy     *)
(*       and the Layer 2 batch reoptimization;                             *)
(*   run_hybrid_simulation.py : the driving loop (Layer 1) and the         *)
(*       background worker (Layer 2) sharing current_routes under          *)
(*       state_lock.                                                       *)
(*                                                                         *)
(* A Python dict is an insertion-ordered map, and the code iterates it:    *)
(* a fleet assignment is modelled as a sequence of [vid, route] entries    *)
(* in insertion order.  A route is a sequence of stop indices (the depot,  *)
(* index 0, is never stored).  The travel-time matrix is a tuple of rows;  *)
(* Python index i is TLA+ index i+1.  Travel times are whole minutes       *)
(* (optimization_solver.py rounds them), so costs are integers, and the    *)
(* products cost*0.97 and cost*0.95 are compared exactly as 97*cost/100    *)
(* and 95*cost/100.                                                        *)
(***************************************************************************)
EXTENDS Integers, Sequences, FiniteSets, TLC

VARIABLES
    time_matrix,        \* data['time_matrix'], loaded at start-up
    current_routes,     \* shared FleetState (run_hybrid_simulation.py:20)
    pending_orders,     \* shared pending queue (run_hybrid_simulation.py:21)
    simulation_running, \* shutdown flag (run_hybrid_simulation.py:23)
    order_counter,      \* number of orders that have arrived
    tick,               \* index of the next tick of the driving loop
    main_pc,            \* position of the driving loop
    l2_pc,              \* position of the Layer 2 worker
    routes_to_optimize, \* Layer 2's snapshot (local of layer2_worker)
    optimized_routes,   \* batch_optimization_vrp's return value (local)
    new_routes,         \* the routes extracted from the solver's solution (local)
    l2_outcome,         \* which return statement of batch_optimization_vrp ran
    premium_route,      \* the fallback route built at horizon end
    arrived,            \* history: the stop index of every order, by order id
    since_snapshot,     \* history: stops Layer 1 committed since the snapshot
    snapshot_late,      \* history: the snapshot in flight was taken after shutdown
    state_lock,         \* holder of state_lock (run_hybrid_simulation.py:22)
    call                \* the inputs and results of one solver call

vars == <<time_matrix, current_routes, pending_orders, simulation_running,
          order_counter, tick, main_pc, l2_pc, routes_to_optimize,
          optimized_routes, new_routes, l2_outcome, premium_route, arrived,
          since_snapshot, snapshot_late, state_lock, call>>

----------------------------------------------------------------------------
(* Python values                                                           *)

\* None and a returned dict, told apart as the code's "is None" / truth tests do
None == [is_none |-> TRUE, routes |-> <<>>]
Some(d) == [is_none |-> FALSE, routes |-> d]

\* time_matrix[i][j]
TM(m, i, j) == m[i + 1][j + 1]

\* d.get(v, [])
Get(d, v) ==
    IF \E k \in DOMAIN d : d[k].vid = v
    THEN d[CHOOSE k \in DOMAIN d : d[k].vid = v].route
    ELSE <<>>

\* d[v] = r : an existing key keeps its place, a new key goes last
Put(d, v, r) ==
    IF \E k \in DOMAIN d : d[k].vid = v
    THEN [k \in DOMAIN d |-> IF d[k].vid = v THEN [vid |-> v, route |-> r] ELSE d[k]]
    ELSE Append(d, [vid |-> v, route |-> r])

\* {i: [] for i in range(n)}
EmptyFleet(n) == [k \in 1..n |-> [vid |-> k - 1, route |-> <<>>]]

\* list.insert(i, x), i a Python index in 0..len
ListInsertOver(route, i, x) == SubSeq(route, 1, i) \o <<x>> \o SubSeq(route, i + 2, Len(route))
ListInsert(route, i, x) == SubSeq(route, 1, i) \o <<x>> \o SubSeq(route, i + 1, Len(route))

\* route[i], route[j] = route[j], route[i], with i, j TLA+ indices
ListOverwrite(route, i, j) == [k \in DOMAIN route |-> IF k = i THEN route[j] ELSE route[k]]
ListSwap(route, i, j) ==
    [k \in DOMAIN route |-> IF k = i THEN route[j] ELSE IF k = j THEN route[i] ELSE route[k]]

\* the elements of a list
Elems(route) == {route[k] : k \in DOMAIN route}

\* "{vid: r for vid, r in new_routes.items() if r}"
FilterEmpty(d) ==
    LET NonEmpty(e) == e.route # <<>>
    IN SelectSeq(d, NonEmpty)

----------------------------------------------------------------------------
(* Cost model                                                              *)

HopSumNone(route, time_matrix_, i) == 0
RECURSIVE HopSum(_, _, _)
HopSum(route, time_matrix_, i) ==
    IF i >= Len(route) THEN 0
    ELSE TM(time_matrix_, route[i], route[i + 1]) + HopSum(route, time_matrix_, i + 1)

route_cost_one_way(route, time_matrix_) == IF route = <<>> THEN 0 ELSE TM(time_matrix_, 0, route[1]) + HopSum(route, time_matrix_, 1)
calculate_route_cost(route, time_matrix_) ==
    IF route = <<>> THEN 0
    ELSE TM(time_matrix_, 0, route[1]) + HopSum(route, time_matrix_, 1)
         + TM(time_matrix_, route[Len(route)], 0)

RECURSIVE TotalFrom(_, _, _)
TotalFrom(routes_dict, time_matrix_, k) ==
    IF k > Len(routes_dict) THEN 0
    ELSE calculate_route_cost(routes_dict[k].route, time_matrix_)
         + TotalFrom(routes_dict, time_matrix_, k + 1)

calculate_total_cost(routes_dict, time_matrix_) == TotalFrom(routes_dict, time_matrix_, 1)

----------------------------------------------------------------------------
(* Layer 1: greedy insertion                                               *)

\* "if len(route) >= max_stops: continue"
RouteFullOnlyAbove(route, max_stops) == Len(route) > max_stops
RouteFull(route, max_stops) == Len(route) >= max_stops

\* "if new_cost > max_duration: continue"
OverDurationNever(new_cost, max_duration) == FALSE
OverDuration(new_cost, max_duration) == new_cost > max_duration

\* "if cost_increase < best_cost_increase", best_cost_increase starting at inf
ImprovesOrTies(cost_increase, best) == best.inf \/ cost_increase <= best.increase
Improves(cost_increase, best) == best.inf \/ cost_increase < best.increase

\* best_cost_increase, best_vehicle_id, best_insertion_index before the loops
NoBest == [inf |-> TRUE, increase |-> 0, vehicle |-> -1, index |-> -1]

\* the two loops of greedy_insert: the best (vehicle, index) found, or vehicle = -1
greedy_scan(current_routes_, new_order_index, time_matrix_, num_vehicles, max_stops, max_duration) ==
    LET RECURSIVE Scan(_, _, _)
        Scan(v_id, i, best) ==
            IF v_id >= num_vehicles THEN best
            ELSE LET route == Get(current_routes_, v_id) IN
                 IF RouteFull(route, max_stops) \/ i > Len(route)
                 THEN Scan(v_id + 1, 0, best)
                 ELSE LET original_cost == calculate_route_cost(route, time_matrix_)
                          temp_route == ListInsert(route, i, new_order_index)
                          new_cost == calculate_route_cost(temp_route, time_matrix_)
                          cost_increase == new_cost - original_cost
                      IN IF OverDuration(new_cost, max_duration)
                         THEN Scan(v_id, i + 1, best)
                         ELSE IF Improves(cost_increase, best)
                         THEN Scan(v_id, i + 1,
                                   [inf |-> FALSE, increase |-> cost_increase,
                                    vehicle |-> v_id, index |-> i])
                         ELSE Scan(v_id, i + 1, best)
    IN Scan(0, 0, NoBest)

greedy_insert(current_routes_, new_order_index, time_matrix_, num_vehicles, max_stops, max_duration) ==
    LET best == greedy_scan(current_routes_, new_order_index, time_matrix_,
                            num_vehicles, max_stops, max_duration)
    IN IF best.vehicle # -1
       THEN Some(Put(current_routes_, best.vehicle,
                     ListInsert(Get(current_routes_, best.vehicle), best.index,
                                new_order_index)))
       ELSE None

----------------------------------------------------------------------------
(* Layer 1: tabu refinement                                                *)

\* defaults of tabu_search (iterations=50, tabu_tenure=10)
ITERATIONS == 50
TABU_TENURE == 10

\* "(route[i], route[j]) in tabu_list or (route[j], route[i]) in tabu_list"
IsTabu(tabu_list, a, b) ==
    \E k \in DOMAIN tabu_list : tabu_list[k] = <<a, b>> \/ tabu_list[k] = <<b, a>>

\* deque(maxlen=tabu_tenure).append(pair)
DequeAppend(tabu_list, pair, tabu_tenure) ==
    IF tabu_tenure = 0 THEN tabu_list
    ELSE IF Len(tabu_list) >= tabu_tenure THEN Append(Tail(tabu_list), pair)
    ELSE Append(tabu_list, pair)

\* "if calculate_route_cost(neighbor_route, time_matrix) <= max_duration"
NeighborAlwaysFeasible(route_cost, max_duration) == TRUE
NeighborFeasible(route_cost, max_duration) == route_cost <= max_duration

\* the neighborhood of one iteration, in the order the three loops append to it
neighborhood_of(current_solution, tabu_list, time_matrix_, max_duration) ==
    LET RECURSIVE Build(_, _, _)
        Build(k, i, j) ==
            IF k > Len(current_solution) THEN <<>>
            ELSE LET route == current_solution[k].route IN
                 IF Len(route) <= 1 \/ i > Len(route) THEN Build(k + 1, 1, 2)
                 ELSE IF j > Len(route) THEN Build(k, i + 1, i + 2)
                 ELSE IF IsTabu(tabu_list, route[i], route[j]) THEN Build(k, i, j + 1)
                 ELSE LET neighbor_route == ListSwap(route, i, j) IN
                      IF NeighborFeasible(calculate_route_cost(neighbor_route, time_matrix_),
                                          max_duration)
                      THEN <<[vehicle_id |-> current_solution[k].vid,
                              neighbor_route |-> neighbor_route]>> \o Build(k, i, j + 1)
                      ELSE Build(k, i, j + 1)
    IN Build(1, 1, 2)

\* best_neighbor_vehicle, best_neighbor_route, best_neighbor_cost_change before the loop
NoNeighbor == [inf |-> TRUE, cost_change |-> 0, vehicle |-> -1, route |-> <<>>]

\* "if cost_change < best_neighbor_cost_change"
BetterOrTiedNeighbor(cost_change, best_cost_change) == cost_change <= best_cost_change
BetterNeighbor(cost_change, best_cost_change) == cost_change < best_cost_change

\* the loop choosing the neighbor of least cost change, the first one on ties
best_neighbor(neighborhood, current_solution, time_matrix_) ==
    LET RECURSIVE Pick(_, _)
        Pick(n, best) ==
            IF n > Len(neighborhood) THEN best
            ELSE LET cost_change ==
                         calculate_route_cost(neighborhood[n].neighbor_route, time_matrix_)
                         - calculate_route_cost(Get(current_solution, neighborhood[n].vehicle_id),
                                                time_matrix_)
                 IN IF best.inf \/ BetterNeighbor(cost_change, best.cost_change)
                    THEN Pick(n + 1, [inf |-> FALSE, cost_change |-> cost_change,
                                      vehicle |-> neighborhood[n].vehicle_id,
                                      route |-> neighborhood[n].neighbor_route])
                    ELSE Pick(n + 1, best)
    IN Pick(1, NoNeighbor)

\* "[node for node in old_route if node not in best_neighbor_route]"
swapped_nodes_of(old_route, best_neighbor_route) ==
    LET NotIn(node) == node \notin Elems(best_neighbor_route)
    IN SelectSeq(old_route, NotIn)

\* "if current_cost < best_cost"
BeatsBestInverted(current_cost, best_cost) == current_cost > best_cost
BeatsBest(current_cost, best_cost) == current_cost < best_cost

\* one pass of the for loop; stop = TRUE is the break on an empty neighborhood
tabu_iteration(st, time_matrix_, max_duration, tabu_tenure) ==
    LET neighborhood == neighborhood_of(st.current_solution, st.tabu_list,
                                        time_matrix_, max_duration)
    IN IF neighborhood = <<>> THEN [st EXCEPT !.stop = TRUE]
       ELSE LET best == best_neighbor(neighborhood, st.current_solution, time_matrix_) IN
            IF best.vehicle = -1 THEN st
            ELSE LET old_route == Get(st.current_solution, best.vehicle)
                     swapped_nodes == swapped_nodes_of(old_route, best.route)
                     tabu_list == IF Len(swapped_nodes) = 2
                                  THEN DequeAppend(st.tabu_list,
                                                   <<swapped_nodes[1], swapped_nodes[2]>>,
                                                   tabu_tenure)
                                  ELSE st.tabu_list
                     current_solution == Put(st.current_solution, best.vehicle, best.route)
                     current_cost == calculate_total_cost(current_solution, time_matrix_)
                     better == BeatsBest(current_cost, st.best_cost)
                 IN [current_solution |-> current_solution,
                     tabu_list |-> tabu_list,
                     best_solution |-> IF better THEN current_solution ELSE st.best_solution,
                     best_cost |-> IF better THEN current_cost ELSE st.best_cost,
                     stop |-> FALSE]

\* the state of tabu_search before its loop
tabu_start(initial_solution, time_matrix_) ==
    [current_solution |-> initial_solution,
     tabu_list |-> <<>>,
     best_solution |-> initial_solution,
     best_cost |-> calculate_total_cost(initial_solution, time_matrix_),
     stop |-> FALSE]

\* The for loop, run for n more passes.  One pass is a function of
\* (current_solution, tabu_list) alone and best_cost only ever decreases: once
\* such a pair comes back, the remaining passes revisit solutions whose costs
\* best_cost has already been compared with, so they change neither
\* best_solution nor best_cost, and the evaluation stops there.
RECURSIVE tabu_loop(_, _, _, _, _, _)
tabu_loop(st, n, seen, time_matrix_, max_duration, tabu_tenure) ==
    IF n = 0 \/ st.stop THEN st
    ELSE IF <<st.current_solution, st.tabu_list>> \in seen THEN st
    ELSE tabu_loop(tabu_iteration(st, time_matrix_, max_duration, tabu_tenure), n - 1,
                   seen \cup {<<st.current_solution, st.tabu_list>>},
                   time_matrix_, max_duration, tabu_tenure)

\* the for loop exactly as written, every pass evaluated
RECURSIVE tabu_loop_plain(_, _, _, _, _)
tabu_loop_plain(st, n, time_matrix_, max_duration, tabu_tenure) ==
    IF n = 0 \/ st.stop THEN st
    ELSE tabu_loop_plain(tabu_iteration(st, time_matrix_, max_duration, tabu_tenure),
                         n - 1, time_matrix_, max_duration, tabu_tenure)

tabu_search(initial_solution, time_matrix_, max_stops, max_duration) ==
    IF initial_solution = <<>> THEN None
    ELSE Some(tabu_loop(tabu_start(initial_solution, time_matrix_), ITERATIONS, {},
                        time_matrix_, max_duration, TABU_TENURE).best_solution)

----------------------------------------------------------------------------
(* Layer 1: acceptance policy                                              *)

\* "if tabu_total_cost < greedy_total_cost * 0.97"
SignificantOrEqual(tabu_cost, greedy_cost) == 100 * tabu_cost <= 97 * greedy_cost
AnyImprovement(tabu_cost, greedy_cost) == tabu_cost < greedy_cost
Significant(tabu_cost, greedy_cost) == 100 * tabu_cost < 97 * greedy_cost

\* returns (routes or None, method), with the two intermediate solutions kept
assign_new_order_realtime(new_order_index, current_routes_, time_matrix_, num_vehicles, max_stops, max_duration) ==
    LET greedy_solution == greedy_insert(current_routes_, new_order_index, time_matrix_,
                                         num_vehicles, max_stops, max_duration)
    IN IF greedy_solution.is_none
       THEN [final |-> None, method |-> "greedy", greedy |-> None, tabu |-> None]
       ELSE LET greedy_total_cost == calculate_total_cost(greedy_solution.routes, time_matrix_)
                tabu_solution == tabu_search(greedy_solution.routes, time_matrix_,
                                             max_stops, max_duration)
            IN IF ~tabu_solution.is_none /\ tabu_solution.routes # <<>>
                  /\ Significant(calculate_total_cost(tabu_solution.routes, time_matrix_),
                                 greedy_total_cost)
               THEN [final |-> tabu_solution, method |-> "tabu",
                     greedy |-> greedy_solution, tabu |-> tabu_solution]
               ELSE [final |-> greedy_solution, method |-> "greedy",
                     greedy |-> greedy_solution, tabu |-> tabu_solution]

----------------------------------------------------------------------------
(* Layer 1 on list objects: the same three functions, with every list an   *)
(* object of a heap and every in-place insert or swap a write to the heap  *)

\* The heap is a sequence of list objects and a reference is an index into
\* it; a dict is a sequence of [vid, ref] records.  The dicts written in
\* place (new_routes, current_solution) are built by a comprehension in the
\* function that writes them.
HeapOf(routes_dict) == [k \in DOMAIN routes_dict |-> routes_dict[k].route]
RefsOf(routes_dict) == [k \in DOMAIN routes_dict |-> [vid |-> routes_dict[k].vid, ref |-> k]]
Deref(heap, d) == [k \in DOMAIN d |-> [vid |-> d[k].vid, route |-> heap[d[k].ref]]]
HasKey(d, v) == \E k \in DOMAIN d : d[k].vid = v
RefOf(d, v) == d[CHOOSE k \in DOMAIN d : d[k].vid = v].ref

\* "route[:]" and "r[:]": a new list object holding the same stops
copy_aliased(heap, ref) == [heap |-> heap, ref |-> ref]
copy_list(heap, ref) == [heap |-> Append(heap, heap[ref]), ref |-> Len(heap) + 1]

\* "[]": a new empty list object
new_list(heap) == [heap |-> Append(heap, <<>>), ref |-> Len(heap) + 1]

\* "{vid: r[:] for vid, r in d.items()}"
copy_dict(heap, d) ==
    LET RECURSIVE CopyFrom(_, _, _)
        CopyFrom(k, h, acc) ==
            IF k > Len(d) THEN [heap |-> h, d |-> acc]
            ELSE LET c == copy_list(h, d[k].ref)
                 IN CopyFrom(k + 1, c.heap, Append(acc, [vid |-> d[k].vid, ref |-> c.ref]))
    IN CopyFrom(1, heap, <<>>)

\* greedy_insert: returns the heap it leaves and the dict it returns
greedy_insert_on(heap, current_routes_, new_order_index, time_matrix_, num_vehicles, max_stops, max_duration) ==
    LET RECURSIVE ScanRoute(_, _, _, _, _, _)
        ScanRoute(v_id, route, original_cost, n, i, s) ==
            IF i >= n THEN s
            ELSE LET temp_route == copy_list(s.heap, route)
                     h == [temp_route.heap EXCEPT
                             ![temp_route.ref] = ListInsert(@, i, new_order_index)]
                     new_cost == calculate_route_cost(h[temp_route.ref], time_matrix_)
                 IN IF OverDuration(new_cost, max_duration)
                    THEN ScanRoute(v_id, route, original_cost, n, i + 1, [s EXCEPT !.heap = h])
                    ELSE IF Improves(new_cost - original_cost, s.best)
                    THEN ScanRoute(v_id, route, original_cost, n, i + 1,
                                   [heap |-> h,
                                    best |-> [inf |-> FALSE, increase |-> new_cost - original_cost,
                                              vehicle |-> v_id, index |-> i]])
                    ELSE ScanRoute(v_id, route, original_cost, n, i + 1, [s EXCEPT !.heap = h])
        RECURSIVE ScanFleet(_, _)
        ScanFleet(v_id, s) ==
            IF v_id >= num_vehicles THEN s
            ELSE LET got == IF HasKey(current_routes_, v_id)
                            THEN [heap |-> s.heap, ref |-> RefOf(current_routes_, v_id)]
                            ELSE new_list(s.heap)
                     route == got.heap[got.ref]
                 IN IF RouteFull(route, max_stops)
                    THEN ScanFleet(v_id + 1, [s EXCEPT !.heap = got.heap])
                    ELSE ScanFleet(v_id + 1,
                                   ScanRoute(v_id, got.ref,
                                             calculate_route_cost(route, time_matrix_),
                                             Len(route) + 1, 0, [s EXCEPT !.heap = got.heap]))
        s == ScanFleet(0, [heap |-> heap, best |-> NoBest])
    IN IF s.best.vehicle # -1
       THEN LET copied == copy_dict(s.heap, current_routes_)
                added == IF HasKey(copied.d, s.best.vehicle)
                         THEN copied
                         ELSE [heap |-> new_list(copied.heap).heap,
                               d |-> Append(copied.d, [vid |-> s.best.vehicle,
                                                       ref |-> new_list(copied.heap).ref])]
            IN [is_none |-> FALSE,
                d |-> added.d,
                heap |-> [added.heap EXCEPT
                            ![RefOf(added.d, s.best.vehicle)]
                                = ListInsert(@, s.best.index, new_order_index)]]
       ELSE [is_none |-> TRUE, d |-> <<>>, heap |-> s.heap]

\* the neighborhood of one pass: (vehicle_id, reference of neighbor_route)
neighborhood_on(heap, current_solution, tabu_list, time_matrix_, max_duration) ==
    LET RECURSIVE Build(_, _, _, _, _)
        Build(k, i, j, h, acc) ==
            IF k > Len(current_solution) THEN [heap |-> h, neighborhood |-> acc]
            ELSE LET route == h[current_solution[k].ref] IN
                 IF Len(route) <= 1 \/ i > Len(route) THEN Build(k + 1, 1, 2, h, acc)
                 ELSE IF j > Len(route) THEN Build(k, i + 1, i + 2, h, acc)
                 ELSE IF IsTabu(tabu_list, route[i], route[j]) THEN Build(k, i, j + 1, h, acc)
                 ELSE LET neighbor_route == copy_list(h, current_solution[k].ref)
                          swapped == [neighbor_route.heap EXCEPT
                                        ![neighbor_route.ref] = ListSwap(@, i, j)]
                      IN IF NeighborFeasible(
                               calculate_route_cost(swapped[neighbor_route.ref], time_matrix_),
                               max_duration)
                         THEN Build(k, i, j + 1, swapped,
                                    Append(acc, [vehicle_id |-> current_solution[k].vid,
                                                 neighbor_route |-> neighbor_route.ref]))
                         ELSE Build(k, i, j + 1, swapped, acc)
    IN Build(1, 1, 2, heap, <<>>)

\* one pass of the for loop of tabu_search
tabu_iteration_on(st, time_matrix_, max_duration, tabu_tenure) ==
    LET built == neighborhood_on(st.heap, st.current_solution, st.tabu_list,
                                 time_matrix_, max_duration)
        neighborhood == [n \in DOMAIN built.neighborhood |->
                            [vehicle_id |-> built.neighborhood[n].vehicle_id,
                             neighbor_route |-> built.heap[built.neighborhood[n].neighbor_route],
                             ref |-> built.neighborhood[n].neighbor_route]]
    IN IF neighborhood = <<>> THEN [st EXCEPT !.stop = TRUE, !.heap = built.heap]
       ELSE LET best == best_neighbor(neighborhood, Deref(built.heap, st.current_solution),
                                      time_matrix_)
                best_ref == neighborhood[CHOOSE n \in DOMAIN neighborhood :
                                            /\ neighborhood[n].vehicle_id = best.vehicle
                                            /\ neighborhood[n].neighbor_route = best.route
                                            /\ \A m \in 1..(n - 1) :
                                                  \/ neighborhood[m].vehicle_id # best.vehicle
                                                  \/ neighborhood[m].neighbor_route # best.route].ref
                old_route == built.heap[RefOf(st.current_solution, best.vehicle)]
                swapped_nodes == swapped_nodes_of(old_route, best.route)
                tabu_list == IF Len(swapped_nodes) = 2
                             THEN DequeAppend(st.tabu_list,
                                              <<swapped_nodes[1], swapped_nodes[2]>>,
                                              tabu_tenure)
                             ELSE st.tabu_list
                current_solution == [k \in DOMAIN st.current_solution |->
                                        IF st.current_solution[k].vid = best.vehicle
                                        THEN [vid |-> best.vehicle, ref |-> best_ref]
                                        ELSE st.current_solution[k]]
                current_cost == calculate_total_cost(Deref(built.heap, current_solution),
                                                     time_matrix_)
                better == BeatsBest(current_cost, st.best_cost)
                copied == copy_dict(built.heap, current_solution)
            IN [heap |-> IF better THEN copied.heap ELSE built.heap,
                current_solution |-> current_solution,
                tabu_list |-> tabu_list,
                best_solution |-> IF better THEN copied.d ELSE st.best_solution,
                best_cost |-> IF better THEN current_cost ELSE st.best_cost,
                stop |-> FALSE]

\* The for loop of tabu_search, run for n more passes; as in tabu_loop, the
\* passes after a repeated (current_solution, tabu_list) are not evaluated:
\* they repeat passes already made, on new copies.
RECURSIVE tabu_loop_on(_, _, _, _, _, _)
tabu_loop_on(st, n, seen, time_matrix_, max_duration, tabu_tenure) ==
    IF n = 0 \/ st.stop THEN st
    ELSE IF <<Deref(st.heap, st.current_solution), st.tabu_list>> \in seen THEN st
    ELSE tabu_loop_on(tabu_iteration_on(st, time_matrix_, max_duration, tabu_tenure), n - 1,
                      seen \cup {<<Deref(st.heap, st.current_solution), st.tabu_list>>},
                      time_matrix_, max_duration, tabu_tenure)

\* tabu_search: returns the heap it leaves and the dict it returns
tabu_search_on(heap, initial_solution, time_matrix_, max_stops, max_duration) ==
    IF initial_solution = <<>> THEN [is_none |-> TRUE, d |-> <<>>, heap |-> heap]
    ELSE LET best_solution == copy_dict(heap, initial_solution)
             current_solution == copy_dict(best_solution.heap, initial_solution)
             st == tabu_loop_on([heap |-> current_solution.heap,
                                 current_solution |-> current_solution.d,
                                 tabu_list |-> <<>>,
                                 best_solution |-> best_solution.d,
                                 best_cost |-> calculate_total_cost(
                                                  Deref(best_solution.heap, best_solution.d),
                                                  time_matrix_),
                                 stop |-> FALSE],
                                ITERATIONS, {}, time_matrix_, max_duration, TABU_TENURE)
         IN [is_none |-> FALSE, d |-> st.best_solution, heap |-> st.heap]

\* assign_new_order_realtime: returns the heap it leaves and the dict it returns
assign_new_order_realtime_on(heap, new_order_index, current_routes_, time_matrix_, num_vehicles, max_stops, max_duration) ==
    LET greedy_solution == greedy_insert_on(heap, current_routes_, new_order_index,
                                            time_matrix_, num_vehicles, max_stops,
                                            max_duration)
    IN IF greedy_solution.is_none THEN greedy_solution
       ELSE LET tabu_solution == tabu_search_on(greedy_solution.heap, greedy_solution.d,
                                                time_matrix_, max_stops, max_duration)
            IN IF ~tabu_solution.is_none /\ tabu_solution.d # <<>>
                  /\ Significant(calculate_total_cost(
                                    Deref(tabu_solution.heap, tabu_solution.d), time_matrix_),
                                 calculate_total_cost(
                                    Deref(greedy_solution.heap, greedy_solution.d),
                                    time_matrix_))
               THEN tabu_solution
               ELSE [greedy_solution EXCEPT !.heap = tabu_solution.heap]

----------------------------------------------------------------------------
(* Layer 2: batch reoptimization                                           *)

\* "for route in current_routes.values(): all_orders.extend(route)"
RECURSIVE all_orders_from(_, _)
all_orders_from(current_routes_, k) ==
    IF k > Len(current_routes_) THEN <<>>
    ELSE current_routes_[k].route \o all_orders_from(current_routes_, k + 1)

all_orders_of(current_routes_) == all_orders_from(current_routes_, 1)

\* every ordering of every subset of S: the routes one vehicle can be given
RECURSIVE Orderings(_)
Orderings(S) ==
    {<<>>} \cup UNION {{<<x>> \o r : r \in Orderings(S \ {x})} : x \in S}

\* "routing.AddDimension(transit_callback_index, 0, max_duration, True, ...)":
\* the cumulated travel time of a vehicle, back at the depot, is at most max_duration
TimeDimensionUnbounded(route_cost, max_duration) == TRUE
WithinTimeDimension(route_cost, max_duration) == route_cost <= max_duration

\* What SolveWithParameters can hand back for the routing model the code
\* builds: one route per vehicle over the customer nodes, each node visited
\* at most once (a node may be left out: every node is in a disjunction), each
\* route within the "Time" dimension's capacity max_duration.  The code gives
\* the solver no limit on the number of stops.  The solver is not
\* reimplemented: any such solution may come back.
RECURSIVE solver_solutions(_, _, _, _)
solver_solutions(nodes, v, time_matrix_, max_duration) ==
    IF v = 0 THEN {<<>>}
    ELSE UNION {{Append(f, [vid |-> v - 1, route |-> r])
                   : f \in solver_solutions(nodes \ Elems(r), v - 1, time_matrix_, max_duration)}
                : r \in {o \in Orderings(nodes) :
                           WithinTimeDimension(calculate_route_cost(o, time_matrix_),
                                               max_duration)}}

\* "node_indices = [0] + list(set(all_orders))"; the order in which the set
\* is listed does not reach the result, and is taken increasing
RECURSIVE ListOfSet(_)
ListOfSet(S) ==
    IF S = {} THEN <<>>
    ELSE LET least == CHOOSE x \in S : \A y \in S : x <= y
         IN <<least>> \o ListOfSet(S \ {least})

node_indices_of(all_orders) == <<0>> \o ListOfSet(Elems(all_orders))

\* "node_map = {node: i for i, node in enumerate(node_indices)}", node_map[node]
node_map_of(node_indices, node) ==
    (CHOOSE i \in DOMAIN node_indices :
        /\ node_indices[i] = node
        /\ \A j \in DOMAIN node_indices : node_indices[j] = node => j <= i) - 1

\* "if node_index_small != 0: # Exclude depot"
DepotKept(node_index_small) == TRUE
NotDepot(node_index_small) == node_index_small # 0

\* The while loop of step 5 for one vehicle.  The solver's route is walked
\* from routing.Start(vehicle_id), the depot, to the last node before the end,
\* in the indices of the small problem; each is taken back to the index of
\* the master matrix.
extract_route(route, node_indices) ==
    LET walked == <<0>> \o [k \in DOMAIN route |-> node_map_of(node_indices, route[k])]
        kept == SelectSeq(walked, NotDepot)
    IN [k \in DOMAIN kept |-> node_indices[kept[k] + 1]]

\* "new_routes = {i: [] for i in range(num_vehicles)}", filled vehicle by vehicle
extract_routes(solution, node_indices) ==
    [k \in DOMAIN solution |->
        [vid |-> solution[k].vid, route |-> extract_route(solution[k].route, node_indices)]]

\* "if new_cost < old_cost * 0.95"
BatchAnyImprovement(new_cost, old_cost) == new_cost < old_cost
BatchSignificant(new_cost, old_cost) == 100 * new_cost < 95 * old_cost

\* steps 5 of batch_optimization_vrp for one solver solution
batch_result(solution, current_routes_, time_matrix_) ==
    LET node_indices == node_indices_of(all_orders_of(current_routes_))
        new_routes_ == FilterEmpty(extract_routes(solution, node_indices))
        new_cost == calculate_total_cost(new_routes_, time_matrix_)
        old_cost == calculate_total_cost(current_routes_, time_matrix_)
    IN IF BatchSignificant(new_cost, old_cost)
       THEN [routes |-> new_routes_, new_routes |-> Some(new_routes_), outcome |-> "improved"]
       ELSE [routes |-> current_routes_, new_routes |-> Some(new_routes_),
             outcome |-> "not_significant"]

\* every (returned routes, extracted routes, return statement) of one call
batch_optimization_vrp(current_routes_, time_matrix_, num_vehicles, max_stops, max_duration) ==
    IF all_orders_of(current_routes_) = <<>>
    THEN {[routes |-> current_routes_, new_routes |-> None, outcome |-> "no_orders"]}
    ELSE {[routes |-> current_routes_, new_routes |-> None, outcome |-> "no_solution"]}
         \cup {batch_result(solution, current_routes_, time_matrix_)
                 : solution \in solver_solutions(Elems(all_orders_of(current_routes_)),
                                                 num_vehicles, time_matrix_, max_duration)}

----------------------------------------------------------------------------
(* Configuration and inputs                                                *)

\* NUM_VEHICLES and MAX_STOPS_PER_ROUTE of run_hybrid_simulation.py (4 and 10
\* there), scaled down so that a full route and a full fleet are reached
NUM_VEHICLES == 2
MAX_STOPS_PER_ROUTE == 2
MAX_ROUTE_DURATION_MINS == 150

\* the number of ticks of the driving loop (32 in the source's 9:00-17:00 day)
MaxTicks == 3

\* the most stops a fleet assignment handed to one solver call holds
MaxFleetStops == 3

\* Travel-time matrices over the depot and three customers.  AsymmetricTimes
\* has a route whose reversal is 3 minutes shorter; SymmetricTimes is
\* symmetric with routes longer than the duration cap; UnreachableTimes
\* holds 99999, the value get_real_travel_time stores when the lookup fails.
AsymmetricTimes ==
    << <<0, 20, 17, 20>>,
       <<20, 0, 20, 30>>,
       <<20, 20, 0, 25>>,
       <<20, 30, 25, 0>> >>
SymmetricTimes ==
    << <<0, 30, 40, 50>>,
       <<30, 0, 20, 45>>,
       <<40, 20, 0, 30>>,
       <<50, 45, 30, 0>> >>
UnreachableTimes ==
    << <<0, 30, 40, 99999>>,
       <<30, 0, 20, 99999>>,
       <<40, 20, 0, 99999>>,
       <<99999, 99999, 99999, 0>> >>
TimeMatrices == {AsymmetricTimes, SymmetricTimes, UnreachableTimes}

\* random.randint(1, len(all_locations) - 1)
Stops(time_matrix_) == 1..(Len(time_matrix_) - 1)

\* every list of at most n stops
RoutesUpTo(S, n) == UNION {[1..k -> S] : k \in 0..n}

\* every fleet of v vehicles (keys 0..v-1, in order) holding at most n stops
RECURSIVE FleetsOf(_, _, _)
FleetsOf(S, v, n) ==
    IF v = 0 THEN {<<>>}
    ELSE UNION {{Append(f, [vid |-> v - 1, route |-> r]) : f \in FleetsOf(S, v - 1, n - Len(r))}
                : r \in RoutesUpTo(S, n)}

\* the fleet assignments a solver call is applied to: all keys present, as
\* at start-up, or only the keys of non-empty routes, as after a Layer 2 install
FleetInputs(S) ==
    LET full == FleetsOf(S, NUM_VEHICLES, MaxFleetStops)
    IN full \cup {FilterEmpty(f) : f \in full}

----------------------------------------------------------------------------
(* The solver functions applied to arbitrary inputs                        *)

NoCall ==
    [op |-> "none", routes |-> <<>>, order |-> 0, max_stops |-> 0, max_duration |-> 0,
     scan |-> NoBest, greedy |-> None, tabu |-> None, final |-> None, method |-> "none",
     route |-> <<>>, cost |-> 0]

SimIdle ==
    /\ current_routes = <<>>
    /\ pending_orders = <<>>
    /\ simulation_running = FALSE
    /\ order_counter = 0
    /\ tick = 0
    /\ main_pc = "off"
    /\ l2_pc = "off"
    /\ routes_to_optimize = <<>>
    /\ optimized_routes = <<>>
    /\ new_routes = None
    /\ l2_outcome = "none"
    /\ premium_route = <<>>
    /\ arrived = <<>>
    /\ since_snapshot = <<>>
    /\ snapshot_late = FALSE
    /\ state_lock = "free"

sim_vars == <<current_routes, pending_orders, simulation_running, order_counter, tick,
              main_pc, l2_pc, routes_to_optimize, optimized_routes, new_routes,
              l2_outcome, premium_route, arrived, since_snapshot, snapshot_late,
              state_lock>>

InitCalls ==
    /\ time_matrix \in TimeMatrices
    /\ SimIdle
    /\ \E routes \in FleetInputs(Stops(time_matrix)),
          order \in Stops(time_matrix),
          max_stops \in {MAX_STOPS_PER_ROUTE - 1, MAX_STOPS_PER_ROUTE} :
          call = [NoCall EXCEPT !.op = "input", !.routes = routes, !.order = order,
                                !.max_stops = max_stops,
                                !.max_duration = MAX_ROUTE_DURATION_MINS]

CallGreedyInsert ==
    /\ call.op = "input"
    /\ call' = [call EXCEPT
                  !.op = "greedy_insert",
                  !.scan = greedy_scan(call.routes, call.order, time_matrix, NUM_VEHICLES,
                                       call.max_stops, call.max_duration),
                  !.greedy = greedy_insert(call.routes, call.order, time_matrix,
                                           NUM_VEHICLES, call.max_stops, call.max_duration)]
    /\ UNCHANGED <<time_matrix, sim_vars>>

CallTabuSearch ==
    /\ call.op = "input"
    /\ call' = [call EXCEPT
                  !.op = "tabu_search",
                  !.tabu = tabu_search(call.routes, time_matrix, call.max_stops,
                                       call.max_duration)]
    /\ UNCHANGED <<time_matrix, sim_vars>>

CallAssign ==
    /\ call.op = "input"
    /\ \E res \in {assign_new_order_realtime(call.order, call.routes, time_matrix,
                                              NUM_VEHICLES, call.max_stops, call.max_duration)} :
          call' = [call EXCEPT !.op = "assign", !.greedy = res.greedy, !.tabu = res.tabu,
                               !.final = res.final, !.method = res.method]
    /\ UNCHANGED <<time_matrix, sim_vars>>

NextCalls == CallGreedyInsert \/ CallTabuSearch \/ CallAssign

SpecCalls == InitCalls /\ [][NextCalls]_vars

----------------------------------------------------------------------------
(* The cost functions applied to arbitrary routes and matrices             *)

\* a matrix file with a negative entry: nothing in build_master_matrix.py or
\* in the loading code constrains the sign of what time_matrix.json holds
NegativeTimes ==
    << <<0, -5, 40, 50>>,
       <<30, 0, 20, 45>>,
       <<40, 20, 0, 30>>,
       <<50, 45, 30, 0>> >>
CostMatrices == TimeMatrices \cup {NegativeTimes}

InitCost ==
    /\ time_matrix \in CostMatrices
    /\ SimIdle
    /\ \E routes \in FleetInputs(Stops(time_matrix)) :
          call = [NoCall EXCEPT !.op = "input", !.routes = routes]

\* calculate_route_cost(route, time_matrix) for one route of the fleet
CallRouteCost ==
    /\ call.op = "input"
    /\ \E k \in DOMAIN call.routes :
          call' = [call EXCEPT
                     !.op = "calculate_route_cost",
                     !.route = call.routes[k].route,
                     !.cost = calculate_route_cost(call.routes[k].route, time_matrix)]
    /\ UNCHANGED <<time_matrix, sim_vars>>

\* calculate_total_cost(routes_dict, time_matrix)
CallTotalCost ==
    /\ call.op = "input"
    /\ call' = [call EXCEPT
                  !.op = "calculate_total_cost",
                  !.cost = calculate_total_cost(call.routes, time_matrix)]
    /\ UNCHANGED <<time_matrix, sim_vars>>

NextCost == CallRouteCost \/ CallTotalCost

SpecCost == InitCost /\ [][NextCost]_vars

----------------------------------------------------------------------------
(* The hybrid simulation: driving loop (Layer 1) and worker (Layer 2)      *)

Init ==
    /\ time_matrix \in TimeMatrices
    /\ current_routes = EmptyFleet(NUM_VEHICLES)
    /\ pending_orders = <<>>
    /\ simulation_running = TRUE
    /\ order_counter = 0
    /\ tick = 0
    /\ main_pc = "loop"
    /\ l2_pc = "check"
    /\ routes_to_optimize = <<>>
    /\ optimized_routes = <<>>
    /\ new_routes = None
    /\ l2_outcome = "none"
    /\ premium_route = <<>>
    /\ arrived = <<>>
    /\ since_snapshot = <<>>
    /\ snapshot_late = FALSE
    /\ state_lock = "free"
    /\ call = NoCall

\* "pending_orders.insert(0, order_to_assign)"
RequeueAtTail(queue, order_to_assign) == Append(queue, order_to_assign)
Requeue(queue, order_to_assign) == <<order_to_assign>> \o queue

\* The holder of state_lock when the "with state_lock:" block of lines 32-34
\* is left: the solver call of lines 37-40 stands outside the block.  Each
\* "with state_lock:" block is one step that takes the free lock at its
\* entry and gives it back at its exit.
LockKeptForSolve == "layer2"
LockAfterSnapshot == "free"

\* Layer 2 is between its snapshot and its write
L2InFlight == l2_pc \in {"solving", "install"}

\* the fleet assignment the locked section of lines 88-94 hands to
\* assign_new_order_realtime: the global current_routes, read under the lock
Layer1ReadsSnapshot == IF L2InFlight THEN routes_to_optimize ELSE current_routes
Layer1Reads == current_routes

\* One tick of the driving loop (lines 75-104).  arrival = 0 is a tick with
\* no new order.  The pending queue is touched by this thread only and the
\* rest runs under state_lock, so the tick is one step for Layer 2.
Tick(arrival) ==
    /\ main_pc = "loop"
    /\ tick < MaxTicks
    /\ LET queue == IF arrival = 0 THEN pending_orders
                    ELSE Append(pending_orders, [id |-> order_counter + 1, index |-> arrival])
       IN /\ order_counter' = IF arrival = 0 THEN order_counter ELSE order_counter + 1
          /\ arrived' = IF arrival = 0 THEN arrived ELSE Append(arrived, arrival)
          /\ queue # <<>> => state_lock = "free"
          /\ IF queue = <<>>
             THEN UNCHANGED <<current_routes, pending_orders, since_snapshot>>
             ELSE \E res \in {assign_new_order_realtime(Head(queue).index, Layer1Reads,
                                  time_matrix, NUM_VEHICLES, MAX_STOPS_PER_ROUTE,
                                  MAX_ROUTE_DURATION_MINS)} :
                    IF ~res.final.is_none /\ res.final.routes # <<>>
                    THEN /\ current_routes' = res.final.routes
                         /\ pending_orders' = Tail(queue)
                         /\ since_snapshot' = IF L2InFlight
                                              THEN Append(since_snapshot, Head(queue).index)
                                              ELSE since_snapshot
                    ELSE /\ pending_orders' = Requeue(Tail(queue), Head(queue))
                         /\ UNCHANGED <<current_routes, since_snapshot>>
    /\ tick' = tick + 1
    /\ UNCHANGED <<time_matrix, simulation_running, main_pc, l2_pc, routes_to_optimize,
                   optimized_routes, new_routes, l2_outcome, premium_route, snapshot_late,
                   state_lock, call>>

\* lines 106-111: the loop is over, the flag is cleared, the main thread sleeps
EndOfDay ==
    /\ main_pc = "loop"
    /\ tick = MaxTicks
    /\ simulation_running' = FALSE
    /\ main_pc' = "waiting"
    /\ UNCHANGED <<time_matrix, current_routes, pending_orders, order_counter, tick, l2_pc,
                   routes_to_optimize, optimized_routes, new_routes, l2_outcome,
                   premium_route, arrived, since_snapshot, snapshot_late, state_lock,
                   call>>

\* "while pending_orders: premium_route.append(pending_orders.pop(0)['index'])"
RECURSIVE drain_reversed(_)
drain_reversed(queue) == IF queue = <<>> THEN <<>> ELSE Append(drain_reversed(Tail(queue)), Head(queue).index)
RECURSIVE drain(_)
drain(queue) == IF queue = <<>> THEN <<>> ELSE <<Head(queue).index>> \o drain(Tail(queue))

\* "time.sleep(LAYER_2_INTERVAL_SECONDS + 2)" of line 111 against the
\* worker's "time.sleep(LAYER_2_INTERVAL_SECONDS)" and the solver's
\* time_limit_sec=5: when the 32 seconds are over a worker that was asleep at
\* shutdown has woken and taken its snapshot (30 < 32), and an iteration whose
\* snapshot predates shutdown is over (5 < 32); an iteration whose snapshot
\* was taken after shutdown may still be running (up to 30 + 5 > 32).
MainSleepOver ==
    /\ l2_pc # "sleeping"
    /\ (l2_pc \in {"solving", "install"}) => snapshot_late

\* lines 113-126: the sleep is over; the pending orders go to the premium
\* vehicle, the function returns and the daemon worker dies with the process
PremiumVehicle ==
    /\ main_pc = "waiting"
    /\ MainSleepOver
    /\ premium_route' = drain(pending_orders)
    /\ pending_orders' = <<>>
    /\ main_pc' = "done"
    /\ UNCHANGED <<time_matrix, current_routes, simulation_running, order_counter, tick,
                   l2_pc, routes_to_optimize, optimized_routes, new_routes, l2_outcome,
                   arrived, since_snapshot, snapshot_late, state_lock, call>>

\* line 29: "while simulation_running"
L2Check ==
    /\ main_pc # "done"
    /\ l2_pc = "check"
    /\ l2_pc' = IF simulation_running THEN "sleeping" ELSE "exited"
    /\ UNCHANGED <<time_matrix, current_routes, pending_orders, simulation_running,
                   order_counter, tick, main_pc, routes_to_optimize, optimized_routes,
                   new_routes, l2_outcome, premium_route, arrived, since_snapshot,
                   snapshot_late, state_lock, call>>

\* lines 30-34: the sleep ends and the snapshot is copied under the lock
L2Snapshot ==
    /\ main_pc # "done"
    /\ l2_pc = "sleeping"
    /\ state_lock = "free"
    /\ state_lock' = LockAfterSnapshot
    /\ routes_to_optimize' = current_routes
    /\ since_snapshot' = <<>>
    /\ snapshot_late' = ~simulation_running
    /\ l2_pc' = "solving"
    /\ UNCHANGED <<time_matrix, current_routes, pending_orders, simulation_running,
                   order_counter, tick, main_pc, optimized_routes, new_routes, l2_outcome,
                   premium_route, arrived, call>>

\* lines 37-40: batch_optimization_vrp on the snapshot, outside the lock
L2Solve ==
    /\ main_pc # "done"
    /\ l2_pc = "solving"
    /\ \E res \in batch_optimization_vrp(routes_to_optimize, time_matrix, NUM_VEHICLES,
                                         MAX_STOPS_PER_ROUTE, MAX_ROUTE_DURATION_MINS) :
          /\ optimized_routes' = res.routes
          /\ new_routes' = res.new_routes
          /\ l2_outcome' = res.outcome
    /\ l2_pc' = "install"
    /\ UNCHANGED <<time_matrix, current_routes, pending_orders, simulation_running,
                   order_counter, tick, main_pc, routes_to_optimize, premium_route, arrived,
                   since_snapshot, snapshot_late, state_lock, call>>

\* lines 42-44: "current_routes = optimized_routes" under the lock; the
\* locals of this pass of the loop are dead from here on
L2Install ==
    /\ main_pc # "done"
    /\ l2_pc = "install"
    /\ state_lock = "free"
    /\ state_lock' = "free"
    /\ current_routes' = optimized_routes
    /\ l2_pc' = "check"
    /\ routes_to_optimize' = <<>>
    /\ optimized_routes' = <<>>
    /\ new_routes' = None
    /\ l2_outcome' = "none"
    /\ since_snapshot' = <<>>
    /\ snapshot_late' = FALSE
    /\ UNCHANGED <<time_matrix, pending_orders, simulation_running, order_counter, tick,
                   main_pc, premium_route, arrived, call>>

Next ==
    \/ \E arrival \in {0} \cup Stops(time_matrix) : Tick(arrival)
    \/ EndOfDay
    \/ PremiumVehicle
    \/ L2Check
    \/ L2Snapshot
    \/ L2Solve
    \/ L2Install

Spec == Init /\ [][Next]_vars

----------------------------------------------------------------------------
(* The Layer-1-only runner (run_dynamic_solver_v2.py)                      *)

\* MAX_ROUTE_DURATION_MINS of run_dynamic_solver_v2.py
MAX_ROUTE_DURATION_MINS_V2 == 170

InitV2 ==
    /\ time_matrix \in TimeMatrices
    /\ current_routes = EmptyFleet(NUM_VEHICLES)
    /\ pending_orders = <<>>
    /\ simulation_running = FALSE
    /\ order_counter = 0
    /\ tick = 0
    /\ main_pc = "loop"
    /\ l2_pc = "off"
    /\ routes_to_optimize = <<>>
    /\ optimized_routes = <<>>
    /\ new_routes = None
    /\ l2_outcome = "none"
    /\ premium_route = <<>>
    /\ arrived = <<>>
    /\ since_snapshot = <<>>
    /\ snapshot_late = FALSE
    /\ state_lock = "free"
    /\ call = [op |-> "smart_queue", attempted |-> <<>>, assigned_in_tick |-> FALSE]

\* "pending_orders.remove(order_to_assign)": the first element equal to the
\* order; Order defines no __eq__, and the ids tell the objects apart
remove_head(queue, order_to_assign) == Tail(queue)
remove_order(queue, order_to_assign) ==
    LET k == CHOOSE i \in DOMAIN queue :
                /\ queue[i] = order_to_assign
                /\ \A j \in 1..(i - 1) : queue[j] # order_to_assign
    IN SubSeq(queue, 1, k - 1) \o SubSeq(queue, k + 1, Len(queue))

\* "for order_to_assign in pending_orders[:]" (lines 62-83), from the k-th
\* element of the copy on; attempted lists the ids of the orders tried
RECURSIVE smart_queue(_, _, _, _, _)
smart_queue(copy, k, routes, queue, attempted) ==
    IF k > Len(copy)
    THEN [current_routes |-> routes, pending_orders |-> queue, attempted |-> attempted,
          assigned_in_tick |-> FALSE]
    ELSE CHOOSE after \in
            {IF ~res.final.is_none /\ res.final.routes # <<>>
             THEN [current_routes |-> res.final.routes,
                   pending_orders |-> remove_order(queue, copy[k]),
                   attempted |-> Append(attempted, copy[k].id),
                   assigned_in_tick |-> TRUE]
             ELSE smart_queue(copy, k + 1, routes, queue, Append(attempted, copy[k].id))
               : res \in {assign_new_order_realtime(copy[k].location_index, routes,
                              time_matrix, NUM_VEHICLES, MAX_STOPS_PER_ROUTE,
                              MAX_ROUTE_DURATION_MINS_V2)}} : TRUE

\* One tick of the loop (lines 45-92).  arrival = 0 is a tick with no new order.
TickV2(arrival) ==
    /\ main_pc = "loop"
    /\ tick < MaxTicks
    /\ LET queue == IF arrival = 0 THEN pending_orders
                    ELSE Append(pending_orders,
                                [id |-> order_counter + 1, location_index |-> arrival])
       IN /\ order_counter' = IF arrival = 0 THEN order_counter ELSE order_counter + 1
          /\ arrived' = IF arrival = 0 THEN arrived ELSE Append(arrived, arrival)
          /\ \E after \in {smart_queue(queue, 1, current_routes, queue, <<>>)} :
                /\ current_routes' = after.current_routes
                /\ pending_orders' = after.pending_orders
                /\ call' = [op |-> "smart_queue", attempted |-> after.attempted,
                            assigned_in_tick |-> after.assigned_in_tick]
    /\ tick' = tick + 1
    /\ UNCHANGED <<time_matrix, simulation_running, main_pc, l2_pc, routes_to_optimize,
                   optimized_routes, new_routes, l2_outcome, premium_route, since_snapshot,
                   snapshot_late, state_lock>>

\* lines 94-95: the loop is over and the count of unassigned orders is printed
EndOfDayV2 ==
    /\ main_pc = "loop"
    /\ tick = MaxTicks
    /\ main_pc' = "done"
    /\ UNCHANGED <<time_matrix, current_routes, pending_orders, simulation_running,
                   order_counter, tick, l2_pc, routes_to_optimize, optimized_routes,
                   new_routes, l2_outcome, premium_route, arrived, since_snapshot,
                   snapshot_late, state_lock, call>>

NextV2 ==
    \/ \E arrival \in {0} \cup Stops(time_matrix) : TickV2(arrival)
    \/ EndOfDayV2

SpecV2 == InitV2 /\ [][NextV2]_vars

----------------------------------------------------------------------------
(* Properties of the solver functions (SpecCalls)                          *)

CallCost(res) == calculate_total_cost(res.routes, time_matrix)
AssignSucceeded == call.op = "assign" /\ ~call.greedy.is_none /\ ~call.tabu.is_none
GreedySucceeded == call.op = "greedy_insert" /\ ~call.greedy.is_none

\* C4: whenever greedy insertion succeeds and the tabu-refined FleetCost is
\* more than 0.97 times the greedy candidate's (100*refined > 97*greedy),
\* assign_new_order_realtime returns the greedy candidate itself, route for
\* route, with method "greedy".
C4_GreedyKeptAboveThreshold ==
    (AssignSucceeded /\ 100 * CallCost(call.tabu) > 97 * CallCost(call.greedy))
        => (call.final = call.greedy /\ call.method = "greedy")

\* a refinement that is cheaper than the greedy candidate, by less than 3%, was discarded
C4_Witness ==
    /\ AssignSucceeded
    /\ CallCost(call.tabu) < CallCost(call.greedy)
    /\ 100 * CallCost(call.tabu) > 97 * CallCost(call.greedy)
    /\ call.final = call.greedy
    /\ call.final # call.tabu

\* C5 as stated: the refined state is returned exactly when 100*refined <=
\* 97*greedy, equality included, and the greedy candidate otherwise.
C5_Original ==
    AssignSucceeded =>
        IF 100 * CallCost(call.tabu) <= 97 * CallCost(call.greedy)
        THEN call.final = call.tabu /\ call.method = "tabu"
        ELSE call.final = call.greedy /\ call.method = "greedy"

\* C5 amended: the refined state is returned exactly when its FleetCost is
\* strictly below 97% of the greedy candidate's (100*refined < 97*greedy); at
\* equality, and above it, the greedy candidate is returned.
C5_StrictThreshold ==
    AssignSucceeded =>
        IF 100 * CallCost(call.tabu) < 97 * CallCost(call.greedy)
        THEN call.final = call.tabu /\ call.method = "tabu"
        ELSE call.final = call.greedy /\ call.method = "greedy"

\* the refined cost is exactly 97% of the greedy cost, and the greedy candidate was returned
C5_Witness ==
    /\ AssignSucceeded
    /\ 100 * CallCost(call.tabu) = 97 * CallCost(call.greedy)
    /\ call.tabu # call.greedy
    /\ call.final = call.greedy
    /\ call.method = "greedy"

\* C8: for a non-empty input assignment, the FleetCost of what tabu_search
\* returns is at most the FleetCost of its input.
C8_TabuNeverRegresses ==
    (call.op = "tabu_search" /\ call.routes # <<>>)
        => (~call.tabu.is_none /\ CallCost(call.tabu) <= calculate_total_cost(call.routes, time_matrix))

\* the first pass applied a worsening swap (the input has no improving one)
\* and the input came back as the best state seen
C8_Witness ==
    /\ call.op = "tabu_search"
    /\ ~call.tabu.is_none
    /\ LET neighborhood == neighborhood_of(call.routes, <<>>, time_matrix, call.max_duration)
       IN /\ neighborhood # <<>>
          /\ best_neighbor(neighborhood, call.routes, time_matrix).cost_change > 0
    /\ call.tabu.routes = call.routes

\* the cycle cut of tabu_loop returns what the loop run pass by pass returns
TabuLoopCutAgrees ==
    (call.op = "tabu_search" /\ call.routes # <<>>)
        => call.tabu.routes
             = tabu_loop_plain(tabu_start(call.routes, time_matrix), ITERATIONS, time_matrix,
                               call.max_duration, TABU_TENURE).best_solution

\* the feasible (vehicle, index) pairs of a call, and the cost increase of one
FeasiblePairs ==
    {p \in (0..(NUM_VEHICLES - 1)) \X (0..MaxFleetStops) :
        /\ p[2] <= Len(Get(call.routes, p[1]))
        /\ Len(Get(call.routes, p[1])) < call.max_stops
        /\ calculate_route_cost(ListInsert(Get(call.routes, p[1]), p[2], call.order),
                                time_matrix) <= call.max_duration}
IncreaseAt(p) ==
    calculate_route_cost(ListInsert(Get(call.routes, p[1]), p[2], call.order), time_matrix)
    - calculate_route_cost(Get(call.routes, p[1]), time_matrix)
Earlier(p, q) == p[1] < q[1] \/ (p[1] = q[1] /\ p[2] <= q[2])

\* C9: an insertion greedy_insert returns goes into a vehicle that had fewer
\* than max_stops stops, never into one already at max_stops, and the
\* RouteCost of that vehicle's route after the insertion is at most
\* max_duration; greedy_insert returns None only when no vehicle and index
\* are feasible.
C9_InsertionFeasible ==
    /\ GreedySucceeded =>
          LET v == call.scan.vehicle
              before == Get(call.routes, v)
              after == ListInsert(before, call.scan.index, call.order)
          IN /\ v \in 0..(NUM_VEHICLES - 1)
             /\ call.scan.index \in 0..Len(before)
             /\ Len(before) < call.max_stops
             /\ call.greedy.routes = Put(call.routes, v, after)
             /\ calculate_route_cost(after, time_matrix) <= call.max_duration
    /\ (call.op = "greedy_insert" /\ call.greedy.is_none) => FeasiblePairs = {}

\* a vehicle at max_stops was passed over and the stop went to another vehicle
C9_Witness ==
    /\ GreedySucceeded
    /\ \E w \in 0..(NUM_VEHICLES - 1) :
          /\ w < call.scan.vehicle
          /\ Len(Get(call.routes, w)) >= call.max_stops
          /\ Get(call.greedy.routes, w) = Get(call.routes, w)

\* C10: greedy_insert picks a feasible (vehicle, index) of least cost
\* increase, the first in vehicle then index order among those of equal
\* increase; into an all-empty fleet that is vehicle 0, index 0, giving a
\* route of cost matrix[0][s] + matrix[s][0].
C10_CheapestFirst ==
    GreedySucceeded =>
        LET chosen == <<call.scan.vehicle, call.scan.index>>
        IN /\ chosen \in FeasiblePairs
           /\ \A p \in FeasiblePairs :
                 /\ IncreaseAt(chosen) <= IncreaseAt(p)
                 /\ IncreaseAt(chosen) = IncreaseAt(p) => Earlier(chosen, p)
           /\ (\A k \in DOMAIN call.routes : call.routes[k].route = <<>>) =>
                 /\ chosen = <<0, 0>>
                 /\ Get(call.greedy.routes, 0) = <<call.order>>
                 /\ calculate_route_cost(Get(call.greedy.routes, 0), time_matrix)
                      = TM(time_matrix, 0, call.order) + TM(time_matrix, call.order, 0)

\* a stop went into vehicle 0 of an all-empty fleet although vehicle 1 costs the same
C10_Witness ==
    /\ GreedySucceeded
    /\ call.routes = EmptyFleet(NUM_VEHICLES)
    /\ call.scan.vehicle = 0
    /\ \E p \in FeasiblePairs : p[1] # 0 /\ IncreaseAt(p) = call.scan.increase

\* C11: greedy_insert returns None if and only if no (vehicle, index) pair
\* is feasible, that is every vehicle is at max_stops or has every insertion
\* index over max_duration; with a feasible pair it returns an assignment.
C11_NoneIffInfeasible ==
    call.op = "greedy_insert" =>
        /\ call.greedy.is_none <=> FeasiblePairs = {}
        /\ call.greedy.is_none <=>
              \A v \in 0..(NUM_VEHICLES - 1) :
                 LET route == Get(call.routes, v)
                 IN \/ Len(route) >= call.max_stops
                    \/ \A i \in 0..Len(route) :
                          calculate_route_cost(ListInsert(route, i, call.order), time_matrix)
                            > call.max_duration
        /\ ~call.greedy.is_none => call.greedy.routes # call.routes

\* None came back from a fleet with one vehicle at max_stops and another one
\* below it whose every insertion index is over max_duration
C11_Witness ==
    /\ call.op = "greedy_insert"
    /\ call.greedy.is_none
    /\ \E v \in 0..(NUM_VEHICLES - 1) : Len(Get(call.routes, v)) >= call.max_stops
    /\ \E v \in 0..(NUM_VEHICLES - 1) : Len(Get(call.routes, v)) < call.max_stops

\* the positions at which two routes of the same length differ
DifferAt(old_route, new_route) == {i \in DOMAIN old_route : old_route[i] # new_route[i]}

\* C19: when the first iteration of tabu_search applies a swap of two
\* different stops a and b, the pair is in the tabu list after the iteration
\* and the neighborhood of the next iteration holds no swap of a with b.
C19_SwapRecorded ==
    (call.op = "tabu_search" /\ call.routes # <<>>) =>
        LET st0 == tabu_start(call.routes, time_matrix)
            neighborhood == neighborhood_of(st0.current_solution, st0.tabu_list,
                                            time_matrix, call.max_duration)
            best == best_neighbor(neighborhood, st0.current_solution, time_matrix)
            old_route == Get(st0.current_solution, best.vehicle)
            st1 == tabu_iteration(st0, time_matrix, call.max_duration, TABU_TENURE)
            later == neighborhood_of(st1.current_solution, st1.tabu_list,
                                     time_matrix, call.max_duration)
        IN (neighborhood # <<>> /\ best.vehicle # -1) =>
              \A i, j \in DOMAIN old_route :
                 (i < j /\ DifferAt(old_route, best.route) = {i, j}) =>
                    /\ IsTabu(st1.tabu_list, old_route[i], old_route[j])
                    /\ \A n \in DOMAIN later :
                          ~(/\ later[n].vehicle_id = best.vehicle
                            /\ later[n].neighbor_route = ListSwap(best.route, i, j))

\* every route of a fleet assignment is within the duration cap
AllWithin(routes_dict, max_duration) ==
    \A k \in DOMAIN routes_dict :
        calculate_route_cost(routes_dict[k].route, time_matrix) <= max_duration

\* the states current_solution goes through from st on, in at most n passes
\* (the passes after a repeated (current_solution, tabu_list) visit no new state)
RECURSIVE VisitedFrom(_, _, _, _)
VisitedFrom(st, n, seen, max_duration) ==
    IF n = 0 \/ st.stop \/ <<st.current_solution, st.tabu_list>> \in seen
    THEN {st.current_solution}
    ELSE {st.current_solution}
         \cup VisitedFrom(tabu_iteration(st, time_matrix, max_duration, TABU_TENURE), n - 1,
                          seen \cup {<<st.current_solution, st.tabu_list>>}, max_duration)

\* C24: from an input whose routes are all within max_duration, every route
\* of the state tabu_search returns is within max_duration, and so is every
\* route of every state the search went through and of every swap it
\* considered from one of them.
C24_TabuKeepsDuration ==
    (call.op = "tabu_search" /\ call.routes # <<>> /\ AllWithin(call.routes, call.max_duration))
        => /\ ~call.tabu.is_none
           /\ AllWithin(call.tabu.routes, call.max_duration)
           /\ \A s \in VisitedFrom(tabu_start(call.routes, time_matrix), ITERATIONS, {},
                                   call.max_duration) :
                 /\ AllWithin(s, call.max_duration)
                 /\ \E neighborhood \in {neighborhood_of(s, <<>>, time_matrix,
                                                          call.max_duration)} :
                       \A n \in DOMAIN neighborhood :
                          calculate_route_cost(neighborhood[n].neighbor_route, time_matrix)
                            <= call.max_duration

\* a feasible input with a swap that would go over max_duration came back
\* improved
C24_Witness ==
    /\ call.op = "tabu_search"
    /\ call.routes # <<>>
    /\ AllWithin(call.routes, call.max_duration)
    /\ ~call.tabu.is_none
    /\ call.tabu.routes # call.routes
    /\ \E k \in DOMAIN call.routes :
          \E i, j \in DOMAIN call.routes[k].route :
             calculate_route_cost(ListSwap(call.routes[k].route, i, j), time_matrix)
               > call.max_duration

\* the loop states tabu_search goes through from st on, in at most n passes
\* (the passes after a repeated (current_solution, tabu_list) visit no new state)
RECURSIVE SearchStates(_, _, _, _)
SearchStates(st, n, seen, max_duration) ==
    IF n = 0 \/ st.stop \/ <<st.current_solution, st.tabu_list>> \in seen
    THEN {st}
    ELSE {st} \cup SearchStates(tabu_iteration(st, time_matrix, max_duration, TABU_TENURE),
                                n - 1, seen \cup {<<st.current_solution, st.tabu_list>>},
                                max_duration)

\* the swaps <<k, i, j>> of positions i < j in the k-th route that are not
\* tabu and keep the route within max_duration
Swaps(st, max_duration) ==
    {t \in UNION {{<<k, i, j>> : i, j \in DOMAIN st.current_solution[k].route} :
                     k \in DOMAIN st.current_solution} :
        LET route == st.current_solution[t[1]].route IN
        /\ t[2] < t[3]
        /\ ~IsTabu(st.tabu_list, route[t[2]], route[t[3]])
        /\ calculate_route_cost(ListSwap(route, t[2], t[3]), time_matrix) <= max_duration}

\* the change of route cost a swap brings
SwapChange(st, t) ==
    calculate_route_cost(ListSwap(st.current_solution[t[1]].route, t[2], t[3]), time_matrix)
    - calculate_route_cost(st.current_solution[t[1]].route, time_matrix)

\* the order in which the three loops enumerate the swaps
SwapBefore(t, u) ==
    \/ t[1] < u[1]
    \/ t[1] = u[1] /\ t[2] < u[2]
    \/ t[1] = u[1] /\ t[2] = u[2] /\ t[3] < u[3]

\* the swap of least change, the first one enumerated on ties
LeastSwap(st, max_duration) ==
    CHOOSE t \in Swaps(st, max_duration) :
        \A u \in Swaps(st, max_duration) \ {t} :
            \/ SwapChange(st, t) < SwapChange(st, u)
            \/ SwapChange(st, t) = SwapChange(st, u) /\ SwapBefore(t, u)

\* C25: a pass of the tabu_search loop that has a swap to consider applies
\* exactly one: the non-tabu, duration-feasible swap of least route-cost
\* change over all vehicles, the first enumerated on ties, whatever the sign
\* of the change, leaving every other route as it was; the loop breaks only
\* on a pass with no such swap, which changes nothing.
C25_OneLeastSwapPerPass ==
    (call.op = "tabu_search" /\ call.routes # <<>>)
        => \A st \in SearchStates(tabu_start(call.routes, time_matrix), ITERATIONS, {},
                                  call.max_duration) :
              st.stop \/
              \E next \in {tabu_iteration(st, time_matrix, call.max_duration, TABU_TENURE)} :
                 IF Swaps(st, call.max_duration) = {}
                 THEN next.stop /\ next.current_solution = st.current_solution
                 ELSE \E t \in {LeastSwap(st, call.max_duration)} :
                         /\ ~next.stop
                         /\ DOMAIN next.current_solution = DOMAIN st.current_solution
                         /\ \A k \in DOMAIN st.current_solution :
                               /\ next.current_solution[k].vid = st.current_solution[k].vid
                               /\ next.current_solution[k].route
                                    = IF k = t[1]
                                      THEN ListSwap(st.current_solution[k].route, t[2], t[3])
                                      ELSE st.current_solution[k].route

\* a search that, at some pass, had to apply a swap that makes its route
\* longer
C25_Witness ==
    /\ call.op = "tabu_search"
    /\ call.routes # <<>>
    /\ \E st \in SearchStates(tabu_start(call.routes, time_matrix), ITERATIONS, {},
                              call.max_duration) :
          /\ ~st.stop
          /\ Swaps(st, call.max_duration) # {}
          /\ SwapChange(st, LeastSwap(st, call.max_duration)) > 0

\* how many times a stop occurs in a route
Occurrences(route, stop) == Cardinality({k \in DOMAIN route : route[k] = stop})

\* one route holds the same stops as another, as many times each
IsPermutation(route, other) ==
    /\ Len(route) = Len(other)
    /\ \A stop \in Elems(route) \cup Elems(other) :
          Occurrences(route, stop) = Occurrences(other, stop)

\* C26: tabu_search returns the vehicles it was given, in the same order,
\* each with a permutation of the route it had in the input.
C26_TabuPermutesWithinVehicle ==
    (call.op = "tabu_search" /\ call.routes # <<>>)
        => /\ ~call.tabu.is_none
           /\ DOMAIN call.tabu.routes = DOMAIN call.routes
           /\ \A k \in DOMAIN call.routes :
                 /\ call.tabu.routes[k].vid = call.routes[k].vid
                 /\ IsPermutation(call.tabu.routes[k].route, call.routes[k].route)

\* a search over two vehicles with stops that came back with a route reordered
C26_Witness ==
    /\ call.op = "tabu_search"
    /\ ~call.tabu.is_none
    /\ call.tabu.routes # call.routes
    /\ Cardinality({k \in DOMAIN call.routes : call.routes[k].route # <<>>}) >= 2

\* the result of a call on list objects is the result recorded for the call
SameResult(on_heap, recorded) ==
    /\ on_heap.is_none = recorded.is_none
    /\ ~on_heap.is_none => Deref(on_heap.heap, on_heap.d) = recorded.routes

\* the caller's list objects hold after the call what they held before it
CallerUntouched(on_heap) ==
    /\ Len(on_heap.heap) >= Len(call.routes)
    /\ SubSeq(on_heap.heap, 1, Len(call.routes)) = HeapOf(call.routes)

\* C27: greedy_insert, tabu_search and assign_new_order_realtime write only
\* to list objects they made themselves: after the call, with or without a
\* returned assignment, every route of the fleet passed in holds the stops
\* it held before, and the returned assignment is the one computed.
C27_ArgumentUntouched ==
    /\ call.op = "greedy_insert"
          => \E res \in {greedy_insert_on(HeapOf(call.routes), RefsOf(call.routes), call.order,
                                          time_matrix, NUM_VEHICLES, call.max_stops,
                                          call.max_duration)} :
                CallerUntouched(res) /\ SameResult(res, call.greedy)
    /\ call.op = "tabu_search"
          => \E res \in {tabu_search_on(HeapOf(call.routes), RefsOf(call.routes), time_matrix,
                                        call.max_stops, call.max_duration)} :
                CallerUntouched(res) /\ SameResult(res, call.tabu)
    /\ call.op = "assign"
          => \E res \in {assign_new_order_realtime_on(HeapOf(call.routes), call.order,
                                                      RefsOf(call.routes), time_matrix,
                                                      NUM_VEHICLES, call.max_stops,
                                                      call.max_duration)} :
                CallerUntouched(res) /\ SameResult(res, call.final)

\* an assignment into a fleet with a route of two stops that tabu_search
\* then reordered
C27_Witness ==
    /\ call.op = "assign"
    /\ ~call.final.is_none
    /\ call.method = "tabu"
    /\ \E k \in DOMAIN call.routes : Len(call.routes[k].route) >= 2

\* how many times a stop occurs over all routes of a fleet assignment
FleetOccurrences(routes_dict, stop) ==
    Cardinality({p \in UNION {{<<k, i>> : i \in DOMAIN routes_dict[k].route} :
                                 k \in DOMAIN routes_dict} :
                    routes_dict[p[1]].route[p[2]] = stop})

\* C28: the assignment a successful assign_new_order_realtime returns,
\* greedy or tabu, holds every location as many times as the input does,
\* and the new order's stop once more.
C28_StopsPreservedPlusOne ==
    (call.op = "assign" /\ ~call.final.is_none)
        => \A stop \in 0..(Len(time_matrix) - 1) :
              FleetOccurrences(call.final.routes, stop)
                = FleetOccurrences(call.routes, stop) + (IF stop = call.order THEN 1 ELSE 0)

\* a tabu-refined assignment of a stop the fleet already holds
C28_Witness ==
    /\ call.op = "assign"
    /\ ~call.final.is_none
    /\ call.method = "tabu"
    /\ FleetOccurrences(call.routes, call.order) >= 1
    /\ FleetOccurrences(call.final.routes, call.order) >= 2

----------------------------------------------------------------------------
(* Properties of the cost functions (SpecCost)                             *)

IsSymmetric(m) == \A i, j \in DOMAIN m : m[i][j] = m[j][i]
HasNegative(m) == \E i, j \in DOMAIN m : m[i][j] < 0
Reverse(route) == [k \in DOMAIN route |-> route[Len(route) + 1 - k]]

\* C14: over a symmetric matrix the RouteCost of a route equals the
\* RouteCost of the reversed route; the RouteCost of the empty route is 0.
C14_ReversalSymmetric ==
    call.op = "calculate_route_cost" =>
        /\ IsSymmetric(time_matrix) =>
              call.cost = calculate_route_cost(Reverse(call.route), time_matrix)
        /\ call.route = <<>> => call.cost = 0

\* the cost of a route of three different stops over a symmetric matrix
C14_Witness ==
    /\ call.op = "calculate_route_cost"
    /\ IsSymmetric(time_matrix)
    /\ Len(call.route) = 3
    /\ Cardinality(Elems(call.route)) = 3
    /\ call.cost > 0

\* C15: from a matrix with a negative entry no route cost is computed: the
\* cost functions reject it.
C15_NegativeRejected ==
    HasNegative(time_matrix) => call.op = "input"

\* the sum of the hops route[i] -> route[i+1] for the positions i of I
RECURSIVE SumOver(_, _, _)
SumOver(I, route, m) ==
    IF I = {} THEN 0
    ELSE LET i == CHOOSE x \in I : TRUE
         IN m[route[i] + 1][route[i + 1] + 1] + SumOver(I \ {i}, route, m)

\* depot -> route[0], the consecutive hops, route[-1] -> depot
RouteCostFormula(route, m) ==
    IF Len(route) = 0 THEN 0
    ELSE m[1][route[1] + 1] + SumOver(1..(Len(route) - 1), route, m)
         + m[route[Len(route)] + 1][1]

RECURSIVE FleetCostFormula(_, _, _)
FleetCostFormula(K, routes, m) ==
    IF K = {} THEN 0
    ELSE LET k == CHOOSE x \in K : TRUE
         IN RouteCostFormula(routes[k].route, m) + FleetCostFormula(K \ {k}, routes, m)

\* C16: RouteCost is matrix[depot][route[0]] plus the hops between
\* consecutive stops plus matrix[route[-1]][depot], depot -> stop -> depot for
\* a single stop and 0 for the empty route; FleetCost is the sum of RouteCost
\* over the routes of all vehicles.
C16_CostFormula ==
    /\ call.op = "calculate_route_cost" =>
          /\ call.cost = RouteCostFormula(call.route, time_matrix)
          /\ Len(call.route) = 1 =>
                call.cost = time_matrix[1][call.route[1] + 1] + time_matrix[call.route[1] + 1][1]
          /\ call.route = <<>> => call.cost = 0
    /\ call.op = "calculate_total_cost" =>
          call.cost = FleetCostFormula(DOMAIN call.routes, call.routes, time_matrix)

\* the FleetCost of a fleet holding a single-stop route and a longer one
C16_Witness ==
    /\ call.op = "calculate_total_cost"
    /\ \E k \in DOMAIN call.routes : Len(call.routes[k].route) = 1
    /\ \E k \in DOMAIN call.routes : Len(call.routes[k].route) = 2
    /\ call.cost > 0

----------------------------------------------------------------------------
(* Properties of the hybrid simulation (Spec)                              *)

\* the order the Layer 1 step of a tick attempts: the head of the queue
\* after the tick's arrival, if any, was appended
TickStep == main_pc = "loop" /\ tick' = tick + 1
Attempts == pending_orders # <<>> \/ order_counter' # order_counter
Attempted ==
    IF pending_orders # <<>> THEN Head(pending_orders)
    ELSE [id |-> order_counter', index |-> arrived'[order_counter']]
Rejected ==
    LET res == assign_new_order_realtime(Attempted.index, current_routes, time_matrix,
                     NUM_VEHICLES, MAX_STOPS_PER_ROUTE, MAX_ROUTE_DURATION_MINS)
    IN res.final.is_none

\* C12: when Layer 1 rejects the order it attempted in a tick, that tick's
\* Layer 1 step leaves FleetState unchanged and the rejected order is at the
\* head of the pending queue at the end of the tick, before every other
\* pending order, so that it is the next one attempted.
C12_RejectedStaysAtHead ==
    [][(TickStep /\ Attempts /\ Rejected) =>
          /\ current_routes' = current_routes
          /\ pending_orders' # <<>>
          /\ Head(pending_orders') = Attempted
          /\ Len(pending_orders')
               = Len(pending_orders) + (IF order_counter' # order_counter THEN 1 ELSE 0)]_vars

\* order #1 was rejected and then rejected again with order #2 queued behind it
C12_Witness ==
    /\ main_pc = "loop"
    /\ tick >= 2
    /\ Len(pending_orders) >= 2
    /\ pending_orders[1].id = 1
    /\ pending_orders[2].id = 2
    /\ current_routes = EmptyFleet(NUM_VEHICLES)

\* the stops held by the routes of a fleet assignment
FleetStops(d) == Elems(all_orders_of(d))

\* the step in which Layer 2 writes current_routes
L2Writes == l2_pc = "install" /\ l2_pc' = "check"

\* C1: no lost update.  A stop Layer 1 committed after Layer 2 took its
\* snapshot is still in some route of FleetState after Layer 2's write.
C1_NoLostUpdate ==
    [][L2Writes => \A k \in DOMAIN since_snapshot :
                      since_snapshot[k] \in FleetStops(current_routes')]_vars

\* C2: every order that has arrived is in the pending queue, or its stop is
\* in some vehicle's route, or its stop is in the fallback route.
C2_EveryOrderAccounted ==
    \A id \in 1..order_counter :
        \/ \E k \in DOMAIN pending_orders : pending_orders[k].id = id
        \/ arrived[id] \in FleetStops(current_routes)
        \/ arrived[id] \in Elems(premium_route)

\* C3: no stop index occurs in two routes or twice in one route of FleetState.
C3_NoStopTwice ==
    LET stops == all_orders_of(current_routes)
    IN \A i, j \in DOMAIN stops : i # j => stops[i] # stops[j]

\* C6: the routes batch_optimization_vrp returns in place of the snapshot
\* cost at most 0.95 times the snapshot's FleetCost, and a solver solution
\* costing more than that is discarded, the snapshot's routes being returned.
C6_InstallOnlySignificant ==
    l2_pc = "install" =>
        LET old_cost == calculate_total_cost(routes_to_optimize, time_matrix)
        IN /\ l2_outcome = "improved" =>
                 /\ optimized_routes = new_routes.routes
                 /\ 100 * calculate_total_cost(optimized_routes, time_matrix) <= 95 * old_cost
           /\ optimized_routes # routes_to_optimize => l2_outcome = "improved"
           /\ (~new_routes.is_none
               /\ 100 * calculate_total_cost(new_routes.routes, time_matrix) > 95 * old_cost)
                 => (l2_outcome = "not_significant" /\ optimized_routes = routes_to_optimize)

\* a solver solution that is cheaper than 95% of the snapshot is about to be installed
C6_Witness ==
    /\ l2_pc = "install"
    /\ l2_outcome = "improved"
    /\ optimized_routes # routes_to_optimize
    /\ FleetStops(optimized_routes) = FleetStops(routes_to_optimize)

\* C7: when the solver returned no solution, or one that was discarded,
\* Layer 2's final locked step leaves the shared FleetState as it was.
C7_NoSolutionNoChange ==
    [][(L2Writes /\ l2_outcome \in {"no_solution", "not_significant"})
          => current_routes' = current_routes]_vars

\* the step in which the pending orders go to the premium vehicle
Drains == main_pc = "waiting" /\ main_pc' = "done"

\* C13: at horizon end the pending orders, which stand in the queue in
\* arrival order, are drained into one fallback route listing their stops in
\* that order, whatever its length and cost; afterwards the queue is empty
\* and the fallback route holds exactly those orders' stops.
C13_DrainInQueueOrder ==
    [][Drains =>
          /\ \A j, k \in DOMAIN pending_orders :
                j < k => pending_orders[j].id < pending_orders[k].id
          /\ pending_orders' = <<>>
          /\ Len(premium_route') = Len(pending_orders)
          /\ \A k \in DOMAIN pending_orders :
                premium_route'[k] = pending_orders[k].index]_vars

\* a fallback route of different stops, longer than MAX_STOPS_PER_ROUTE and
\* costlier than MAX_ROUTE_DURATION_MINS, was built and the queue is empty
C13_Witness ==
    /\ main_pc = "done"
    /\ pending_orders = <<>>
    /\ Len(premium_route) > MAX_STOPS_PER_ROUTE
    /\ calculate_route_cost(premium_route, time_matrix) > MAX_ROUTE_DURATION_MINS
    /\ premium_route[1] # premium_route[Len(premium_route)]

\* C17: every route of FleetState has at most MAX_STOPS_PER_ROUTE stops.
C17_StopCap ==
    \A k \in DOMAIN current_routes :
        Len(current_routes[k].route) <= MAX_STOPS_PER_ROUTE

\* C18: every route of FleetState has a RouteCost of at most
\* MAX_ROUTE_DURATION_MINS.
C18_DurationCap ==
    \A k \in DOMAIN current_routes :
        calculate_route_cost(current_routes[k].route, time_matrix) <= MAX_ROUTE_DURATION_MINS

\* FleetState was installed by Layer 2 (a vehicle's key is gone) after Layer 1
\* commits and holds every stop that arrived, one route having several stops
C18_Witness ==
    /\ Len(current_routes) < NUM_VEHICLES
    /\ \E k \in DOMAIN current_routes : Len(current_routes[k].route) >= 2
    /\ order_counter >= 2
    /\ FleetStops(current_routes) = Elems(arrived)

\* the step in which Layer 2 takes a snapshot
L2Snapshots == l2_pc = "sleeping" /\ l2_pc' = "solving"

\* C20: once simulation_running is False the Layer 2 worker takes no further
\* snapshot: it only completes an iteration whose snapshot it already holds.
C20_NoSnapshotAfterShutdown ==
    [][~simulation_running => ~L2Snapshots]_vars

\* C21: when the driving loop starts its end-of-horizon processing the
\* Layer 2 worker is not between its snapshot and its install.
C21_WorkerIdleAtHorizonEnd ==
    [][Drains => ~L2InFlight]_vars

\* C22: while Layer 2 is solving it does not hold state_lock: the lock is
\* free, which is all the Layer 1 step of a tick waits for before it reads
\* and commits.
C22_SolveOutsideLock ==
    l2_pc = "solving" => (state_lock # "layer2" /\ state_lock = "free")

\* Layer 1 committed a stop while Layer 2 was solving
C22_Witness ==
    /\ l2_pc = "solving"
    /\ since_snapshot # <<>>
    /\ current_routes # routes_to_optimize

\* C23: the state a Layer 1 step commits for an order is the one
\* assign_new_order_realtime derives from the FleetState of the moment of the
\* commit; the step handles that one order only and no Layer 2 step falls
\* inside it.
C23_CommitFromCurrentState ==
    [][(TickStep /\ Attempts) =>
          \E res \in {assign_new_order_realtime(Attempted.index, current_routes, time_matrix,
                          NUM_VEHICLES, MAX_STOPS_PER_ROUTE, MAX_ROUTE_DURATION_MINS)} :
             /\ ~res.final.is_none => current_routes' = res.final.routes
             /\ res.final.is_none => current_routes' = current_routes
             /\ order_counter' - order_counter \in {0, 1}
             /\ Len(pending_orders') + (IF res.final.is_none THEN 0 ELSE 1)
                  = Len(pending_orders) + (order_counter' - order_counter)
             /\ l2_pc' = l2_pc
             /\ routes_to_optimize' = routes_to_optimize
             /\ optimized_routes' = optimized_routes]_vars

\* two orders were committed one after the other between Layer 2's snapshot
\* and its install
C23_Witness ==
    /\ l2_pc = "install"
    /\ Len(since_snapshot) >= 2
    /\ \A k \in DOMAIN since_snapshot : since_snapshot[k] \in FleetStops(current_routes)

----------------------------------------------------------------------------
(* Properties of the Layer-1-only runner (SpecV2)                          *)

\* the queue a tick works on: the pending orders and the order that arrived
QueueOfTick ==
    IF order_counter' = order_counter THEN pending_orders
    ELSE Append(pending_orders,
                [id |-> order_counter', location_index |-> arrived'[Len(arrived')]])

\* the order can be assigned to the fleet as it stands at the start of the tick
Assignable(order) ==
    ~assign_new_order_realtime(order.location_index, current_routes, time_matrix,
                               NUM_VEHICLES, MAX_STOPS_PER_ROUTE,
                               MAX_ROUTE_DURATION_MINS_V2).final.is_none

\* C30: a tick of the Layer-1-only runner tries the pending orders in queue
\* order against an unchanged fleet until one is assigned; that one is
\* committed and leaves the queue, the orders tried before it keep their
\* places, and no order behind it is tried; when none can be assigned all
\* are tried and nothing changes.
C30_FirstAssignableOnly ==
    [][TickStep =>
         \E queue \in {QueueOfTick} :
            \E able \in {{k \in DOMAIN queue : Assignable(queue[k])}} :
               IF able = {}
               THEN /\ current_routes' = current_routes
                    /\ pending_orders' = queue
                    /\ call'.attempted = [k \in DOMAIN queue |-> queue[k].id]
                    /\ ~call'.assigned_in_tick
               ELSE \E first \in {CHOOSE k \in able : \A j \in able : k <= j} :
                       /\ current_routes'
                            = assign_new_order_realtime(queue[first].location_index,
                                  current_routes, time_matrix, NUM_VEHICLES,
                                  MAX_STOPS_PER_ROUTE, MAX_ROUTE_DURATION_MINS_V2).final.routes
                       /\ pending_orders'
                            = SubSeq(queue, 1, first - 1) \o SubSeq(queue, first + 1, Len(queue))
                       /\ call'.attempted = [k \in 1..first |-> queue[k].id]
                       /\ call'.assigned_in_tick]_vars

\* a tick that tried an order, could not assign it, and assigned the one behind
C30_Witness ==
    /\ call.op = "smart_queue"
    /\ call.assigned_in_tick
    /\ Len(call.attempted) >= 2
    /\ pending_orders # <<>>
    /\ pending_orders[1].id = call.attempted[1]

====
